---- MODULE Spec2Model ----
(***************************************************************************)
(* Model of evm-adapters/src/sputnik/evm.rs: the Executor adapter that     *)
(* drives a sputnik stack executor (deploy, call_raw, set_balance,         *)
(* initialize_contracts, reset, state) and post-processes gas, logs and    *)
(* the exit status.                                                        *)
(*                                                                         *)
(* The execution engine (the SputnikExecutor trait and the StackState      *)
(* behind it) is a collaborator whose code is not part of evm.rs.  It is   *)
(* modelled as a nondeterministic machine: every transaction picks an      *)
(* EngineChoice (exit status, gas charged, log records emitted, return     *)
(* data, storage write).                                                   *)
(***************************************************************************)
EXTENDS Integers, Sequences, FiniteSets, TLC

\* ------------------------------------------------------------------ bounds

\* Highest nonce a sender may reach; deploy and call_raw are capped by it.
MaxNonce == 2

\* Number of log records the engine emits over a whole run.
MaxLogs == 2

\* Largest balance word (stands for 2^256 - 1, the U256 maximum).
U256_MAX == 3

\* ------------------------------------------------------------- constants

\* The privileged funding account (crate::FAUCET_ACCOUNT).
FAUCET_ACCOUNT == 0

\* The intrinsic base cost deducted from the gas difference.
IntrinsicBaseCost == 21000

\* Externally owned accounts: the faucet and one user.
EOA == {FAUCET_ACCOUNT, FAUCET_ACCOUNT + 1}

\* Addresses that send transactions: the user.
Senders == EOA \ {FAUCET_ACCOUNT}

\* Legacy (nonce-based) contract address: injective in (caller, nonce), as
\* keccak(rlp(caller, nonce)) is taken to be.
LegacyAddress(caller, nonce) == Cardinality(EOA) + caller * MaxNonce + nonce

Address == 0 .. (Cardinality(EOA) + Cardinality(EOA) * MaxNonce - 1)

\* Byte strings used as bytecode, calldata and return data.
Bytes == {<<>>, <<1>>, <<2>>}

\* Gas limits an adapter is constructed with (one below the base cost).
GasLimits == {20000, 43000}

\* Gas the engine may charge for one transaction.
GasCosts == {20999, 21000, 21001}

\* sputnik::ExitReason, with some of its sub-variants.
ExitReason ==
    { [tag |-> "Succeed", sub |-> "Stopped"],
      [tag |-> "Succeed", sub |-> "Returned"],
      [tag |-> "Revert",  sub |-> "Reverted"],
      [tag |-> "Error",   sub |-> "OutOfGas"],
      [tag |-> "Error",   sub |-> "OutOfFund"],
      [tag |-> "Fatal",   sub |-> "NotSupported"] }

OutOfGas == [tag |-> "Error", sub |-> "OutOfGas"]
OutOfFund == [tag |-> "Error", sub |-> "OutOfFund"]

VARIABLES
    gas_limit,      \* Executor.gas_limit
    executor,       \* Executor.executor: [state, logs]
    emitted,        \* number of log records the engine has emitted so far
    returned_logs,  \* log records handed to callers by earlier operations
    last            \* the last adapter operation: arguments, engine report, result

vars == <<gas_limit, executor, emitted, returned_logs, last>>

\* ------------------------------------------------------- pure helpers

Min(a, b) == IF a < b THEN a ELSE b

Max(a, b) == IF a < b THEN b ELSE a

Range(seq) == {seq[i] : i \in DOMAIN seq}

\* U256::saturating_sub
saturating_sub(a, b) == IF a < b THEN 0 ELSE a - b

\* U256::saturating_add, on the model's balance word
saturating_add(a, b) == Min(a + b, U256_MAX)

\* ------------------------------------------------- state backend (S)

\* One account/storage snapshot together with its gasometer (the StackState).
MkState(bal, g) ==
    [ balance |-> bal,
      nonce   |-> [a \in Address |-> 0],
      code    |-> [a \in Address |-> <<>>],
      storage |-> [a \in Address |-> 0],
      gas     |-> g ]

\* Account balances a backend may start from: a faucet funded with the
\* largest balance, alone or next to an already funded user.
GenesisBalances ==
    { [a \in Address |-> IF a = FAUCET_ACCOUNT THEN U256_MAX ELSE 0],
      [a \in Address |-> IF a = FAUCET_ACCOUNT THEN U256_MAX
                         ELSE IF a = 1 THEN 1 ELSE 0] }

\* States a caller builds for Executor::new and for reset, their gasometer
\* set up with the gas limit g.
NewStates(g) == {MkState(b, g) : b \in GenesisBalances}

\* StackState::transfer: fails when the source cannot pay, otherwise debits
\* the source and credits the target (the credit saturates).
transfer(st, source, target, value) ==
    IF st.balance[source] < value
    THEN [ok |-> FALSE, state |-> st]
    ELSE LET debited  == [st.balance EXCEPT ![source] = @ - value]
             credited == [debited EXCEPT ![target] = saturating_add(@, value)]
         IN  [ok |-> TRUE, state |-> [st EXCEPT !.balance = credited]]

\* StackState::set_code
set_code(st, address, code) == [st EXCEPT !.code[address] = code]

\* --------------------------------------------- execution engine (E)

\* What one transaction does inside the engine: its verdict, the gas it
\* charges, the log records it appends, its return data, whether it writes
\* storage.
EngineChoices(costs, fresh) ==
    { ch \in [ status : ExitReason, cost : costs, logs : fresh,
               retdata : {<<>>, <<1>>}, write : BOOLEAN ] :
        /\ ch.retdata # <<>> => ch.status.sub \in {"Returned", "Reverted"}
        /\ ch.status.sub = "Returned" => ch.retdata # <<>>
        /\ ch.write => ch.status.tag = "Succeed" }

\* The log records a transaction may append: the next zero to two records.
FreshLogs ==
    { IF n = 0 THEN <<>>
      ELSE IF n = 1 THEN <<emitted + 1>>
      ELSE <<emitted + 1, emitted + 2>> : n \in 0 .. Min(2, MaxLogs - emitted) }

\* SputnikExecutor::gas_left
gas_left(ex) == ex.state.gas

\* SputnikExecutor::logs
logs(ex) == ex.logs

\* SputnikExecutor::clear_logs
clear_logs(ex) == [ex EXCEPT !.logs = <<>>]

\* SputnikExecutor::create_address with CreateScheme::Legacy
create_address(ex, caller) == LegacyAddress(caller, ex.state.nonce[caller])

\* SputnikExecutor::transact_call
transact_call(ex, caller, address, value, data, limit, ch) ==
    IF ch.cost > ex.state.gas
    THEN [ executor |-> [ex EXCEPT !.state.gas = 0], status |-> OutOfGas,
           retdata |-> <<>>, appended |-> <<>>, code_run |-> <<>>,
           gas_limit |-> limit ]
    ELSE LET s1 == [ex.state EXCEPT !.gas = @ - ch.cost, !.nonce[caller] = @ + 1]
             t  == transfer(s1, caller, address, value)
             s2 == IF ch.write /\ s1.code[address] # <<>>
                   THEN [t.state EXCEPT !.storage[address] = 1]
                   ELSE t.state
         IN  IF ~t.ok
             THEN [ executor |-> [ex EXCEPT !.state = s1], status |-> OutOfFund,
                    retdata |-> <<>>, appended |-> <<>>, code_run |-> <<>>,
                    gas_limit |-> limit ]
             ELSE [ executor |->
                        [ state |-> IF ch.status.tag = "Succeed" THEN s2 ELSE s1,
                          logs  |-> ex.logs \o ch.logs ],
                    status |-> ch.status, retdata |-> ch.retdata,
                    appended |-> ch.logs, code_run |-> s1.code[address],
                    gas_limit |-> limit ]

\* SputnikExecutor::transact_create
transact_create(ex, caller, value, init_code, limit, ch) ==
    LET address == LegacyAddress(caller, ex.state.nonce[caller])
    IN
    IF ch.cost > ex.state.gas
    THEN [ executor |-> [ex EXCEPT !.state.gas = 0], status |-> OutOfGas,
           appended |-> <<>>, gas_limit |-> limit ]
    ELSE IF ex.state.balance[caller] < value
    THEN [ executor |-> [ex EXCEPT !.state.gas = @ - ch.cost], status |-> OutOfFund,
           appended |-> <<>>, gas_limit |-> limit ]
    ELSE LET s1 == [ex.state EXCEPT !.gas = @ - ch.cost, !.nonce[caller] = @ + 1]
             t  == transfer(s1, caller, address, value)
             s2 == set_code(t.state, address, init_code)
         IN  IF s1.code[address] # <<>>
             THEN [ executor |-> [ex EXCEPT !.state = s1],
                    status |-> [tag |-> "Error", sub |-> "CreateCollision"],
                    appended |-> <<>>, gas_limit |-> limit ]
             ELSE [ executor |->
                        [ state |-> IF ch.status.tag = "Succeed" THEN s2 ELSE s1,
                          logs  |-> ex.logs \o ch.logs ],
                    status |-> ch.status, appended |-> ch.logs,
                    gas_limit |-> limit ]


\* ------------------------------------------------ the Executor adapter

\* Evm::revert
revert == [tag |-> "Revert", sub |-> "Reverted"]

\* Evm::is_success
is_success(reason) == reason.tag = "Succeed"

\* A classification that counts only reverts as failures.
is_fail_revert_only(reason) == reason.tag = "Revert"

\* Evm::is_fail
is_fail(reason) == ~is_success(reason)

\* Evm::state
state == executor.state

\* A reset that takes over the new accounts' balances only.
reset_state_balances_only(old, new) == [old EXCEPT !.balance = new.balance]

\* Evm::reset: the state the engine holds after `*state_mut() = state`.
reset_state(old, new) == new

\* A seeding that goes through a deployment: the account's nonce moves too.
RECURSIVE initialize_contracts_state_deploying(_, _)
initialize_contracts_state_deploying(st, contracts) ==
    IF contracts = <<>>
    THEN st
    ELSE initialize_contracts_state_deploying(
             [set_code(st, Head(contracts).address, Head(contracts).bytecode)
                 EXCEPT !.nonce[Head(contracts).address] = 1],
             Tail(contracts))

\* Evm::initialize_contracts: set_code for every entry, in order.
RECURSIVE initialize_contracts_state(_, _)
initialize_contracts_state(st, contracts) ==
    IF contracts = <<>>
    THEN st
    ELSE initialize_contracts_state(
             set_code(st, Head(contracts).address, Head(contracts).bytecode),
             Tail(contracts))

\* A set_balance that writes the target's balance and debits nobody.
set_balance_run_direct(ex, address, balance) ==
    [ executor |-> [ex EXCEPT !.state.balance[address] =
                                  saturating_add(@, balance)],
      result |-> [kind |-> "Unit"] ]

\* A set_balance that drops the transfer's error instead of panicking.
set_balance_run_swallowing(ex, address, balance) ==
    LET t == transfer(ex.state, FAUCET_ACCOUNT, address, balance)
    IN  [ executor |-> [ex EXCEPT !.state = t.state],
          result |-> [kind |-> "Unit"] ]

\* Evm::set_balance: the faucet transfer and the `expect` on its result.
set_balance_run(ex, address, balance) ==
    LET t == transfer(ex.state, FAUCET_ACCOUNT, address, balance)
    IN  IF t.ok
        THEN [ executor |-> [ex EXCEPT !.state = t.state],
               result |-> [kind |-> "Unit"] ]
        ELSE [ executor |-> ex,
               result |-> [kind |-> "Panic", msg |-> "could not transfer funds"] ]

\* A gas computation whose subtractions do not saturate.
gas_used_unchecked(gas_before, gas_after) ==
    gas_before - gas_after - IntrinsicBaseCost

\* The gas reported by deploy and call_raw:
\* gas_before.saturating_sub(gas_after).saturating_sub(21000)
gas_used(gas_before, gas_after) ==
    saturating_sub(saturating_sub(gas_before, gas_after), IntrinsicBaseCost)

\* An address derived after the create transaction has run.
deploy_address_after_create(before, after, from) == create_address(after, from)

\* deploy: the engine state the created address is derived from (the one
\* before transact_create).
deploy_address(before, after, from) == create_address(before, from)

\* An adapter that reads the logs and leaves the buffer as it is.
logs_not_cleared(ex) == ex

\* deploy and call_raw: the engine after the logs were read (clear_logs).
logs_cleared(ex) == clear_logs(ex)

\* A deploy whose error reports every failure as the plain revert.
deploy_result_err_as_revert(address, status, gas, logs_) ==
    IF is_fail(status)
    THEN [kind |-> "Err", status |-> revert]
    ELSE [kind |-> "Ok", address |-> address, status |-> status,
          gas |-> gas, logs |-> logs_]

\* A deploy that returns Ok whatever the status.
deploy_result_always_ok(address, status, gas, logs_) ==
    [kind |-> "Ok", address |-> address, status |-> status,
     gas |-> gas, logs |-> logs_]

\* deploy: Err on a failed status, Ok((address, status, gas, logs)) otherwise.
deploy_result(address, status, gas, logs_) ==
    IF is_fail(status)
    THEN [kind |-> "Err", status |-> status]
    ELSE [kind |-> "Ok", address |-> address, status |-> status,
          gas |-> gas, logs |-> logs_]

\* A call_raw that, like deploy, turns a failed status into an error.
call_raw_result_err_on_fail(retdata, status, gas, logs_) ==
    IF status.tag # "Succeed"
    THEN [kind |-> "Err", status |-> status]
    ELSE [kind |-> "Ok", retdata |-> retdata, status |-> status,
          gas |-> gas, logs |-> logs_]

\* call_raw: always Ok((retdata, status, gas, logs)).
call_raw_result(retdata, status, gas, logs_) ==
    [kind |-> "Ok", retdata |-> retdata, status |-> status,
     gas |-> gas, logs |-> logs_]

\* A deploy that hands the engine the gas it has left instead of the
\* configured limit, and runs the create again after a failure.
deploy_run_retrying(ex, limit, from, calldata, value, ch) ==
    LET gas_before == gas_left(ex)
        tx1        == transact_create(ex, from, value, calldata, gas_left(ex), ch)
        tx         == IF is_fail(tx1.status)
                      THEN transact_create(tx1.executor, from, value, calldata,
                                           gas_left(tx1.executor), ch)
                      ELSE tx1
        address    == deploy_address(ex, tx.executor, from)
        logs_      == logs(tx.executor)
        ex2        == logs_cleared(tx.executor)
        gas_after  == gas_left(ex2)
        gas        == gas_used(gas_before, gas_after)
        report(t)  == [kind |-> "create", status |-> t.status,
                       appended |-> t.appended, gas_limit |-> t.gas_limit]
    IN  [ executor |-> ex2,
          result   |-> deploy_result(address, tx.status, gas, logs_),
          txs      |-> IF is_fail(tx1.status)
                       THEN <<report(tx1), report(tx)>>
                       ELSE <<report(tx1)>> ]

\* A deploy that clears the log buffer on its success path only.
deploy_run_clear_on_success(ex, limit, from, calldata, value, ch) ==
    LET gas_before == gas_left(ex)
        tx         == transact_create(ex, from, value, calldata, limit, ch)
        address    == deploy_address(ex, tx.executor, from)
        logs_      == logs(tx.executor)
        ex2        == IF is_fail(tx.status)
                      THEN tx.executor
                      ELSE logs_cleared(tx.executor)
        gas_after  == gas_left(ex2)
        gas        == gas_used(gas_before, gas_after)
    IN  [ executor |-> ex2,
          result   |-> deploy_result(address, tx.status, gas, logs_),
          txs      |-> <<[kind |-> "create", status |-> tx.status,
                          appended |-> tx.appended, gas_limit |-> tx.gas_limit]>> ]

\* Evm::deploy, for one engine outcome ch.
deploy_run(ex, limit, from, calldata, value, ch) ==
    LET gas_before == gas_left(ex)
        tx         == transact_create(ex, from, value, calldata, limit, ch)
        address    == deploy_address(ex, tx.executor, from)
        logs_      == logs(tx.executor)
        ex2        == logs_cleared(tx.executor)
        gas_after  == gas_left(ex2)
        gas        == gas_used(gas_before, gas_after)
    IN  [ executor |-> ex2,
          result   |-> deploy_result(address, tx.status, gas, logs_),
          txs      |-> <<[kind |-> "create", status |-> tx.status,
                          appended |-> tx.appended, gas_limit |-> tx.gas_limit]>> ]

\* A call_raw that enforces is_static itself: a static call keeps the
\* engine's answer and throws its state changes away.
call_raw_run_static_enforced(ex, limit, from, to, calldata, value, is_static, ch) ==
    LET gas_before == gas_left(ex)
        tx         == transact_call(ex, from, to, value, calldata, limit, ch)
        gas_after  == gas_left(tx.executor)
        gas        == gas_used(gas_before, gas_after)
        logs_      == logs(tx.executor)
        ex2        == logs_cleared(tx.executor)
    IN  [ executor |-> IF is_static
                       THEN [ex2 EXCEPT !.state.storage = ex.state.storage,
                                        !.state.balance = ex.state.balance]
                       ELSE ex2,
          result   |-> call_raw_result(tx.retdata, tx.status, gas, logs_),
          txs      |-> <<[kind |-> "call", status |-> tx.status,
                          retdata |-> tx.retdata, appended |-> tx.appended,
                          gas_limit |-> tx.gas_limit, code_run |-> tx.code_run]>> ]

\* Evm::call_raw, for one engine outcome ch.
call_raw_run(ex, limit, from, to, calldata, value, is_static, ch) ==
    LET gas_before == gas_left(ex)
        tx         == transact_call(ex, from, to, value, calldata, limit, ch)
        gas_after  == gas_left(tx.executor)
        gas        == gas_used(gas_before, gas_after)
        logs_      == logs(tx.executor)
        ex2        == logs_cleared(tx.executor)
    IN  [ executor |-> ex2,
          result   |-> call_raw_result(tx.retdata, tx.status, gas, logs_),
          txs      |-> <<[kind |-> "call", status |-> tx.status,
                          retdata |-> tx.retdata, appended |-> tx.appended,
                          gas_limit |-> tx.gas_limit, code_run |-> tx.code_run]>> ]

\* The log records an operation result hands to its caller.
ReturnedLogs(op) ==
    IF op.op \in {"deploy", "call_raw"} /\ op.result.kind = "Ok"
    THEN Range(op.result.logs)
    ELSE {}

\* ---------------------------------------------------------- inputs

Values == {0, 1}

Amounts == {0, 1, U256_MAX}

\* Targets of call_raw: the faucet and the user's first contract address.
CallTargets == {FAUCET_ACCOUNT, LegacyAddress(FAUCET_ACCOUNT + 1, 0)}

\* Targets of set_balance: the faucet itself and the user.
FundTargets == EOA

\* Entries of initialize_contracts: up to two (address, bytecode) pairs over
\* the user's first two contract addresses.
Entry ==
    { [address |-> LegacyAddress(FAUCET_ACCOUNT + 1, 0), bytecode |-> <<1>>],
      [address |-> LegacyAddress(FAUCET_ACCOUNT + 1, 0), bytecode |-> <<2>>],
      [address |-> LegacyAddress(FAUCET_ACCOUNT + 1, 1), bytecode |-> <<2>>] }

Contracts == {<<>>} \cup {<<e>> : e \in Entry} \cup {<<e, f>> : e \in Entry, f \in Entry}

\* ------------------------------------------------------ specification

Init ==
    /\ gas_limit \in GasLimits
    /\ \E s \in NewStates(gas_limit) : executor = [state |-> s, logs |-> <<>>]
    /\ emitted = 0
    /\ returned_logs = {}
    /\ last = [op |-> "new", txs |-> <<>>]

\* Bookkeeping every operation shares: the records handed out so far.
Record(op) ==
    /\ last' = op
    /\ returned_logs' = returned_logs \cup ReturnedLogs(last)
    /\ UNCHANGED gas_limit

reset(new_state) ==
    /\ executor' = [executor EXCEPT !.state = reset_state(executor.state, new_state)]
    /\ UNCHANGED emitted
    /\ Record([op |-> "reset", new_state |-> new_state, txs |-> <<>>,
               discarded |-> [f \in {"balance", "nonce", "code", "storage"} |->
                                 executor.state[f] # new_state[f]]])

initialize_contracts(contracts) ==
    /\ executor' = [executor EXCEPT
                       !.state = initialize_contracts_state(executor.state, contracts)]
    /\ UNCHANGED emitted
    /\ Record([op |-> "initialize_contracts", contracts |-> contracts,
               txs |-> <<>>])

set_balance(address, balance) ==
    LET r == set_balance_run(executor, address, balance)
    IN  /\ executor' = r.executor
        /\ UNCHANGED emitted
        /\ Record([op |-> "set_balance", address |-> address,
                   balance |-> balance, result |-> r.result, txs |-> <<>>])

deploy(from, calldata, value, choices) ==
    /\ executor.state.nonce[from] < MaxNonce
    /\ \E ch \in choices :
         LET r == deploy_run(executor, gas_limit, from, calldata, value, ch)
         IN  /\ executor' = r.executor
             /\ emitted' = emitted + Len(r.txs[1].appended)
             /\ Record([op |-> "deploy", from |-> from, value |-> value,
                        result |-> r.result, txs |-> r.txs])

call_raw(from, to, calldata, value, is_static, choices) ==
    /\ executor.state.nonce[from] < MaxNonce
    /\ \E ch \in choices :
         LET r == call_raw_run(executor, gas_limit, from, to, calldata, value,
                               is_static, ch)
         IN  /\ executor' = r.executor
             /\ emitted' = emitted + Len(r.txs[1].appended)
             /\ Record([op |-> "call_raw", from |-> from, to |-> to,
                        calldata |-> calldata, value |-> value,
                        is_static |-> is_static,
                        result |-> r.result, txs |-> r.txs])

\* The engine as the whole adapter is exercised: a transaction charges the
\* base cost and emits no log record; every exit status can occur.
PlainChoices == EngineChoices({IntrinsicBaseCost}, {<<>>})

\* The engine as the transaction path is exercised: every gas charge and
\* every emission of log records.
TxChoices == EngineChoices(GasCosts, FreshLogs)

Deploy(choices, values) ==
    \E f \in Senders, c \in {<<1>>}, v \in values : deploy(f, c, v, choices)

CallRaw(choices, values) ==
    \E f \in Senders, t \in CallTargets, c \in {<<1>>}, v \in values,
       st \in BOOLEAN : call_raw(f, t, c, v, st, choices)

\* Every operation of the adapter, in any order.
Next ==
    \/ \E s \in NewStates(gas_limit) : reset(s)
    \/ \E c \in Contracts : initialize_contracts(c)
    \/ \E a \in FundTargets, b \in Amounts : set_balance(a, b)
    \/ Deploy(PlainChoices, Values)
    \/ CallRaw(PlainChoices, Values)

Spec == Init /\ [][Next]_vars

\* Sequences of deploy and call_raw on one adapter instance, transferring
\* no value.
NextTx ==
    \/ Deploy(TxChoices, {0})
    \/ CallRaw(TxChoices, {0})

SpecTx == Init /\ [][NextTx]_vars

\* ------------------------------------------------------------ claims

Failures == {"Revert", "Error", "Fatal"}

\* The engine's report of the transaction the last operation ran.
LastTx == last.txs[1]

IsTx(op) == op.op \in {"deploy", "call_raw"}

\* C6: is_success and is_fail are complementary for every exit status the
\* engine reports: exactly one of them is true, is_success exactly for
\* Succeed(_), is_fail for every Revert, Error and Fatal.
C6_Complementary ==
    IsTx(last) =>
        /\ is_success(LastTx.status) # is_fail(LastTx.status)
        /\ is_success(LastTx.status) <=> LastTx.status.tag = "Succeed"
        /\ LastTx.status.tag \in Failures => is_fail(LastTx.status)

\* C6 witness: an engine-level error status, classified as a failure only.
C6_Witness ==
    /\ IsTx(last)
    /\ LastTx.status.tag = "Error"
    /\ is_fail(LastTx.status) /\ ~is_success(LastTx.status)

\* C4: deploy returns the error carrying the exit status, and no address,
\* exactly when the status is Revert, Error or Fatal, and returns
\* (precomputed address, status, gas_used, logs) exactly when it is Succeed.
C4_DeployResult ==
    [][last'.op = "deploy" =>
        LET tx == last'.txs[1]
            r  == last'.result
        IN  /\ r.kind \in {"Ok", "Err"}
            /\ r.kind = "Err" <=> tx.status.tag \in Failures
            /\ r.kind = "Ok" <=> tx.status.tag = "Succeed"
            /\ r.kind = "Err" => r = [kind |-> "Err", status |-> tx.status]
            /\ r.kind = "Ok" =>
                 /\ DOMAIN r = {"kind", "address", "status", "gas", "logs"}
                 /\ r.address =
                        LegacyAddress(last'.from, executor.state.nonce[last'.from])
                 /\ r.status = tx.status
    ]_vars

\* C4 witness: a deploy the engine ended with a fatal error returned the
\* error result.
C4_Witness ==
    /\ last.op = "deploy"
    /\ LastTx.status.tag = "Fatal"
    /\ last.result.kind = "Err"

\* C5: call_raw returns a normal result with the engine's return data, the
\* status, gas_used and logs also when the status is a failure.
C5_CallRawAlwaysOk ==
    last.op = "call_raw" =>
        /\ last.result.kind = "Ok"
        /\ DOMAIN last.result = {"kind", "retdata", "status", "gas", "logs"}
        /\ last.result.retdata = LastTx.retdata
        /\ last.result.status = LastTx.status

\* C5 witness: a call that reverted with no reason payload returned empty
\* return data with status Revert.
C5_Witness ==
    /\ last.op = "call_raw"
    /\ LastTx.status = [tag |-> "Revert", sub |-> "Reverted"]
    /\ LastTx.retdata = <<>>
    /\ last.result.kind = "Ok"
    /\ last.result.retdata = <<>>
    /\ last.result.status.tag = "Revert"


\* C1 (as stated): no log record returned by one operation is contained in
\* the logs returned by a later operation, and every deploy and call_raw
\* returns exactly the log records the engine appended during its own
\* transaction.
C1_LogIsolationEveryOperation ==
    /\ ReturnedLogs(last) \cap returned_logs = {}
    /\ IsTx(last) => ReturnedLogs(last) = Range(LastTx.appended)

\* C1 (amended): no log record returned by one operation is contained in the
\* logs returned by a later operation; every call_raw and every successful
\* deploy returns exactly the log records the engine appended during its own
\* transaction, in order, and a failed deploy returns no logs.
C1_LogIsolation ==
    /\ ReturnedLogs(last) \cap returned_logs = {}
    /\ IsTx(last) /\ last.result.kind = "Ok" => last.result.logs = LastTx.appended
    /\ IsTx(last) /\ last.result.kind = "Err" => "logs" \notin DOMAIN last.result

\* C1 witness: an operation returned the records of its own transaction
\* after an earlier operation had returned other records.
C1_Witness ==
    /\ IsTx(last)
    /\ last.result.kind = "Ok"
    /\ last.result.logs # <<>>
    /\ last.result.logs = LastTx.appended
    /\ returned_logs # {}

\* C2: the gas_used a deploy or call_raw returns is
\* max(0, gas_before - gas_after - 21000): never negative, never wrapped, and
\* 0 whenever gas_before - gas_after is below 21000.
C2_GasUsed ==
    [][IsTx(last') /\ last'.result.kind = "Ok" =>
        LET gas_before == executor.state.gas
            gas_after  == executor'.state.gas
            gas        == last'.result.gas
        IN  /\ gas = Max(0, gas_before - gas_after - 21000)
            /\ gas >= 0
            /\ gas_before - gas_after < 21000 => gas = 0
    ]_vars

\* C2 witness: under a gas limit below the base cost a call returned
\* gas_used 0.
C2_Witness ==
    /\ gas_limit < 21000
    /\ last.op = "call_raw"
    /\ last.result.gas = 0

\* C2 second witness: a deploy that charged more than the base cost
\* returned the excess.
C2_WitnessPositive ==
    /\ last.op = "deploy"
    /\ last.result.kind = "Ok"
    /\ last.result.gas = 1

\* C3: a successful deploy returns the legacy address derived from the
\* sender's nonce as it was before the create transaction, which then
\* increments that nonce.
C3_AddressFromPreNonce ==
    [][last'.op = "deploy" /\ last'.result.kind = "Ok" =>
        LET from == last'.from
        IN  /\ last'.result.address =
                   LegacyAddress(from, executor.state.nonce[from])
            /\ executor'.state.nonce[from] = executor.state.nonce[from] + 1
            /\ last'.result.address #
                   LegacyAddress(from, executor'.state.nonce[from])
    ]_vars

\* C3 witness: a second successful deploy of the same sender, at the address
\* of nonce 1.
C3_Witness ==
    /\ last.op = "deploy"
    /\ last.result.kind = "Ok"
    /\ executor.state.nonce[last.from] = 2
    /\ last.result.address = LegacyAddress(last.from, 1)
    /\ executor.state.code[last.result.address] # <<>>


RECURSIVE SumOver(_, _)
SumOver(b, S) ==
    IF S = {} THEN 0
    ELSE LET a == CHOOSE x \in S : TRUE IN b[a] + SumOver(b, S \ {a})

\* The sum of all balances of a state.
TotalSupply(st) == SumOver(st.balance, Address)

\* C7 (as stated): for any address and any amount not exceeding the faucet's
\* balance, set_balance increases the address's balance by exactly the amount
\* (strictly, for an amount that is not zero) and decreases the faucet's
\* balance by the same amount, so the sum of all balances is unchanged.
C7_FundingConservesAnyAddress ==
    [][last'.op = "set_balance"
         /\ last'.balance <= executor.state.balance[FAUCET_ACCOUNT] =>
        LET a == last'.address
            v == last'.balance
            b == executor.state.balance
        IN  /\ v > 0 => executor'.state.balance[a] > b[a]
            /\ executor'.state.balance[a] = b[a] + v
            /\ executor'.state.balance[FAUCET_ACCOUNT] = b[FAUCET_ACCOUNT] - v
            /\ TotalSupply(executor'.state) = TotalSupply(executor.state)
    ]_vars

\* C7 (amended): for any address other than the faucet and any amount not
\* exceeding the faucet's balance, as long as the address's balance plus the
\* amount fits the balance word, set_balance increases the address's balance
\* by exactly the amount (strictly when the amount is not zero), decreases
\* the faucet's balance by the same amount, changes no other balance and
\* keeps the sum of all balances; funding the faucet itself changes no
\* balance.
C7_FundingConserves ==
    [][last'.op = "set_balance"
         /\ last'.balance <= executor.state.balance[FAUCET_ACCOUNT] =>
        LET a == last'.address
            v == last'.balance
            b == executor.state.balance
            c == executor'.state.balance
        IN  /\ last'.result.kind = "Unit"
            /\ a = FAUCET_ACCOUNT => c = b
            /\ a # FAUCET_ACCOUNT /\ b[a] + v <= U256_MAX =>
                 /\ c[a] = b[a] + v
                 /\ v > 0 => c[a] > b[a]
                 /\ c[FAUCET_ACCOUNT] = b[FAUCET_ACCOUNT] - v
                 /\ \A x \in Address \ {a, FAUCET_ACCOUNT} : c[x] = b[x]
                 /\ TotalSupply(executor'.state) = TotalSupply(executor.state)
    ]_vars

\* C7 witness: a funded user holds a non-zero amount the faucet paid.
C7_Witness ==
    /\ last.op = "set_balance"
    /\ last.result.kind = "Unit"
    /\ last.address # FAUCET_ACCOUNT
    /\ last.balance > 0
    /\ executor.state.balance[last.address] = last.balance
    /\ executor.state.balance[FAUCET_ACCOUNT] = U256_MAX - last.balance

\* C8: set_balance with an amount above the faucet's balance fails with the
\* fatal error of the `expect` (no normal return, no revert status) and
\* credits nothing.
C8_InsufficientFaucetPanics ==
    [][last'.op = "set_balance"
         /\ last'.balance > executor.state.balance[FAUCET_ACCOUNT] =>
        /\ last'.result.kind = "Panic"
        /\ "status" \notin DOMAIN last'.result
        /\ executor'.state.balance[last'.address]
               = executor.state.balance[last'.address]
        /\ executor' = executor
    ]_vars

\* C8 witness: a set_balance above the faucet's balance ended in the panic.
C8_Witness ==
    /\ last.op = "set_balance"
    /\ last.balance > executor.state.balance[FAUCET_ACCOUNT]
    /\ last.address # FAUCET_ACCOUNT
    /\ last.result.kind = "Panic"

\* C9: after reset(new_state) the state read through state() equals
\* new_state, whatever operations came before.
C9_ResetReplacesState ==
    last.op = "reset" => state = last.new_state

\* C9 witness: a reset that discarded balance, nonce, code and storage
\* mutations at once.
C9_Witness ==
    /\ last.op = "reset"
    /\ \A f \in DOMAIN last.discarded : last.discarded[f]
    /\ state = last.new_state

\* The bytecode of the last entry for address a, when there is one.
SeededCode(contracts, a, old) ==
    LET I == {i \in DOMAIN contracts : contracts[i].address = a}
    IN  IF I = {} THEN old
        ELSE contracts[CHOOSE i \in I : \A j \in I : j <= i].bytecode

\* C10: initialize_contracts sets the code of every entry's account to the
\* entry's bytecode (the last entry of an address standing) and changes
\* nothing else: no nonce, balance, storage, remaining gas or log buffer, and
\* no transaction is executed; a call_raw the engine runs executes the code
\* the state holds at the target, so the seeded code at a seeded address.
C10_SeedingOnlySetsCode ==
    [][/\ last'.op = "initialize_contracts" =>
            /\ \A a \in Address :
                   executor'.state.code[a] =
                       SeededCode(last'.contracts, a, executor.state.code[a])
            /\ \A i \in DOMAIN last'.contracts :
                   executor'.state.code[last'.contracts[i].address] \in
                       {last'.contracts[j].bytecode : j \in i .. Len(last'.contracts)}
            /\ executor'.state.nonce = executor.state.nonce
            /\ executor'.state.balance = executor.state.balance
            /\ executor'.state.storage = executor.state.storage
            /\ gas_left(executor') = gas_left(executor)
            /\ executor'.logs = executor.logs
            /\ last'.txs = <<>>
       /\ last'.op = "call_raw"
            /\ last'.txs[1].status.sub \notin {"OutOfGas", "OutOfFund"} =>
            last'.txs[1].code_run = executor.state.code[last'.to]
    ]_vars

\* C10 witness: a successful call ran bytecode that only seeding puts at the
\* target, whose nonce is still zero.
C10_Witness ==
    /\ last.op = "call_raw"
    /\ LastTx.status.tag = "Succeed"
    /\ LastTx.code_run = <<2>>
    /\ executor.state.code[last.to] = <<2>>
    /\ executor.state.nonce[last.to] = 0


\* C11: is_static has no effect in the adapter: from any reachable state,
\* for the same from, to, calldata, value and engine outcome, call_raw with
\* is_static TRUE and with is_static FALSE returns the same data, status,
\* gas_used and logs and leaves the same state.
C11_IsStaticIgnored ==
    \A f \in Senders, t \in CallTargets, c \in {<<>>, <<1>>}, v \in Values,
       ch \in TxChoices :
        call_raw_run(executor, gas_limit, f, t, c, v, TRUE, ch)
            = call_raw_run(executor, gas_limit, f, t, c, v, FALSE, ch)

\* C11 witness: a call made with is_static set wrote the storage of its
\* target: the adapter protected nothing.
C11_Witness ==
    /\ last.op = "call_raw"
    /\ last.is_static
    /\ LastTx.status.tag = "Succeed"
    /\ LastTx.code_run # <<>>
    /\ executor.state.storage[last.to] = 1


\* C12: the exit status handed to the caller is the status the engine
\* produced, tag and sub-variant: call_raw returns it beside the return
\* data, deploy returns it on success and carries it in the error on
\* failure, so Revert, Error and Fatal stay apart.
C12_StatusPreserved ==
    IsTx(last) =>
        /\ last.result.status = LastTx.status
        /\ last.result.status.tag = LastTx.status.tag
        /\ last.result.status.sub = LastTx.status.sub
        /\ last.op = "call_raw" => last.result.retdata = LastTx.retdata
        /\ last.op = "deploy" =>
               (last.result.kind = "Err") = (LastTx.status.tag \in Failures)

\* C12 witness: a deploy that ran out of gas returned the error carrying
\* Error(OutOfGas), not the revert.
C12_Witness ==
    /\ last.op = "deploy"
    /\ LastTx.status = OutOfGas
    /\ last.result = [kind |-> "Err", status |-> OutOfGas]
    /\ last.result.status # revert


\* C13: every deploy and every call_raw runs the engine's transaction step
\* exactly once, whatever the exit status, and hands it the adapter's
\* configured gas limit; no operation, reset included, changes that limit,
\* and the other operations run no transaction.
C13_OneTransactionWithGasLimit ==
    [][/\ gas_limit' = gas_limit
       /\ IsTx(last') =>
            /\ Len(last'.txs) = 1
            /\ last'.txs[1].gas_limit = gas_limit
            /\ last'.txs[1].kind =
                   (IF last'.op = "deploy" THEN "create" ELSE "call")
            /\ last'.txs[1].status \in
                   ExitReason \cup {[tag |-> "Error", sub |-> "CreateCollision"]}
       /\ ~IsTx(last') => last'.txs = <<>>
    ]_vars

\* C13 witness: after gas was spent, a deploy the engine ended with a fatal
\* error had run one create, with the configured limit and not the gas left.
C13_Witness ==
    /\ last.op = "deploy"
    /\ LastTx.status.tag = "Fatal"
    /\ Len(last.txs) = 1
    /\ LastTx.gas_limit = gas_limit
    /\ gas_left(executor) + IntrinsicBaseCost < gas_limit


\* The log records the transaction of a failed deploy appended.
DroppedLogs(op) ==
    IF op.op = "deploy" /\ op.result.kind = "Err"
    THEN Range(op.txs[1].appended)
    ELSE {}

\* C14: the engine's log buffer is empty whenever a deploy or call_raw has
\* returned, on the failure path too; the records a failed deploy's
\* transaction appended are handed to no caller and are not among the logs
\* of the next deploy or call_raw.
C14_BufferEmptyAfterReturn ==
    [][IsTx(last') =>
        /\ logs(executor') = <<>>
        /\ DroppedLogs(last') \cap ReturnedLogs(last') = {}
        /\ DroppedLogs(last') \cap (returned_logs' \cup returned_logs) = {}
        /\ DroppedLogs(last) \cap ReturnedLogs(last') = {}
        /\ DroppedLogs(last) \cap returned_logs' = {}
    ]_vars

\* C14 witness: an operation returned its own records after a failed deploy
\* had emitted a record that no caller has received.
C14_Witness ==
    /\ IsTx(last)
    /\ last.result.kind = "Ok"
    /\ last.result.logs # <<>>
    /\ logs(executor) = <<>>
    /\ \E i \in 1 .. emitted : i \notin returned_logs \cup ReturnedLogs(last)


====
